---- MODULE Spec2Model ----
(***************************************************************************)
(* Account handlers of go-chat-api: handleLogin and handleRegister         *)
(* (auth_handlers.go), handleGetUserDetail, handleCreateUser,              *)
(* handleUpdateUser and handleDeleteUser (user handlers), running          *)
(* concurrently against one users table.  A handler is cut into atomic     *)
(* steps at its store calls: everything a handler does between two store   *)
(* calls touches only its own request.                                     *)
(***************************************************************************)
EXTENDS Integers, Sequences, FiniteSets, Bags, TLC

\* ------------------------------------------------------------------ bounds
MaxReqs == 2        \* requests ever started
MaxInFlight == 2    \* requests running at the same time
MaxTime == 1        \* the clock stops ticking here
NumSalts == 2       \* distinct values rand.Read can produce

\* ------------------------------------------------------- program constants
Iterations == 10000
KeyLen == 512
TokenTTL == 1

\* ------------------------------------------------------------------ inputs
NIL == "nil"        \* a nil *string of updateUserData

StrLen(s) ==
  CASE s = "alice12" -> 7
    [] s = "bobby77" -> 7
    [] s = "bob" -> 3
    [] s = "Secret123!" -> 10
    [] s = "NewSecret1!" -> 11
    [] s = "short" -> 5
    [] s = "Alice A." -> 8
    [] s = "Alice B." -> 8
    [] OTHER -> 0

Usernames == {"alice12", "bobby77"}
Passwords == {"Secret123!", "NewSecret1!"}

In(u, d, p, c) == [username |-> u, displayName |-> d, password |-> p, confirm |-> c]

\* the last one fails eqfield=ConfirmPassword
RegisterInputs ==
  {In("alice12", "Alice A.", "Secret123!", "Secret123!"),
   In("bobby77", "Alice A.", "Secret123!", "Secret123!"),
   In("alice12", "Alice A.", "NewSecret1!", "Secret123!")}

\* the last one fails min=8 on the password
CreateInputs ==
  {In("alice12", "Alice A.", "Secret123!", NIL),
   In("bobby77", "Alice A.", "NewSecret1!", NIL),
   In("alice12", "Alice A.", "short", NIL)}

\* the last one fails min=5 on the username
LoginInputs ==
  {In(u, NIL, p, NIL) : u \in Usernames, p \in Passwords}
  \cup {In("bob", NIL, "Secret123!", NIL)}

\* the first one supplies no field; the last one fails min=8 on the password
UpdateInputs ==
  {In(NIL, NIL, NIL, NIL),
   In("bobby77", NIL, NIL, NIL),
   In(NIL, "Alice B.", NIL, NIL),
   In(NIL, NIL, "NewSecret1!", NIL),
   In(NIL, "Alice B.", "NewSecret1!", NIL),
   In(NIL, NIL, "short", NIL)}

NoInput == [username |-> NIL, displayName |-> NIL, password |-> NIL, confirm |-> NIL]

\* ------------------------------------------------------------- validation
\* struct tags of loginUserData: required,min=5,max=50 / required,printascii,min=8
ValidLogin(in) ==
  /\ StrLen(in.username) >= 5 /\ StrLen(in.username) <= 50
  /\ StrLen(in.password) >= 8

\* struct tags of registerUserData (password carries eqfield=ConfirmPassword)
ValidRegister(in) ==
  /\ StrLen(in.username) >= 5 /\ StrLen(in.username) <= 50
  /\ StrLen(in.displayName) >= 5 /\ StrLen(in.displayName) <= 150
  /\ StrLen(in.password) >= 8 /\ in.password = in.confirm
  /\ StrLen(in.confirm) >= 1

\* struct tags of createUserData
ValidCreate(in) ==
  /\ StrLen(in.username) >= 5 /\ StrLen(in.username) <= 50
  /\ StrLen(in.displayName) >= 5 /\ StrLen(in.displayName) <= 150
  /\ StrLen(in.password) >= 8

\* struct tags of updateUserData: omitnil on every field
ValidUpdate(in) ==
  /\ in.username = NIL \/ (StrLen(in.username) >= 5 /\ StrLen(in.username) <= 50)
  /\ in.displayName = NIL
       \/ (StrLen(in.displayName) >= 5 /\ StrLen(in.displayName) <= 150)
  /\ in.password = NIL \/ StrLen(in.password) >= 8

\* ---------------------------------------------------------------- hashing
\* saltyPassword with another iteration count than the shared derivation
saltyPasswordWeak(password, salt) ==
  [pw |-> password, salt |-> salt, iter |-> 1000, len |-> KeyLen]

\* pbkdf2.Key(password, salt, 10_000, 512, sha256.New), as an ideal
\* (collision-free) function of its arguments
saltyPassword(password, salt) ==
  [pw |-> password, salt |-> salt, iter |-> Iterations, len |-> KeyLen]

\* auth.SaltyPassword: the Salted Hasher of the design, the same derivation
\* with the same parameters
SaltyPassword(password, salt) ==
  [pw |-> password, salt |-> salt, iter |-> Iterations, len |-> KeyLen]

\* subtle.ConstantTimeCompare(a, b) = 1
ConstantTimeCompare(a, b) == a.len = b.len /\ a = b

NoHash == [pw |-> NIL, salt |-> 0, iter |-> 0, len |-> 0]
Salts == 1..NumSalts

\* ------------------------------------------------------------- the store
NullTs == [time |-> 0, valid |-> FALSE]     \* pgtype.Timestamp{} (NULL)
Ts(t) == [time |-> t, valid |-> TRUE]

NoUser ==
  [pvtId |-> 0, userId |-> 0, username |-> NIL, displayName |-> NIL,
   password |-> NoHash, passwordSalt |-> 0, createdAt |-> 0, updatedAt |-> 0,
   lastLoggedIn |-> NullTs]

VARIABLES
  users,      \* the users table: pvt_id -> row
  nextId,     \* the serial that assigns pvt_id
  now,        \* the wall clock
  tokens,     \* bearer tokens issued so far
  reqs,       \* the bag of requests in flight, each between two of its steps
  last,       \* the request the latest step completed, with its responses
  started,    \* requests started so far
  ghost       \* pvt_id -> what the account was created with / last set to

vars == <<users, nextId, now, tokens, reqs, last, started, ghost>>

\* the Authorization header of a request: absent, not a token of this
\* service, or a token
NoCred == [kind |-> "none", pvt |-> 0, exp |-> 0]
BadCred == [kind |-> "garbage", pvt |-> 0, exp |-> 0]

IdleReq ==
  [kind |-> "none", pc |-> "idle", in |-> NoInput, user |-> NoUser,
   upd |-> NoUser, resps |-> <<>>, pre |-> "", note |-> "", created |-> 0,
   log |-> <<>>, cred |-> NoCred]

\* ------------------------------------------------ errors of the store driver
\* nil, pgx.ErrNoRows, a failure below the SQL level (not a *pgconn.PgError),
\* and the *pgconn.PgError of the unique constraint on username
NoErr == [pg |-> FALSE, message |-> "", code |-> "", constraint |-> ""]
ErrNoRows ==
  [pg |-> FALSE, message |-> "no rows in result set", code |-> "",
   constraint |-> ""]
ConnErr ==
  [pg |-> FALSE, message |-> "failed to connect to database", code |-> "",
   constraint |-> ""]
UniqueViolation ==
  [pg |-> TRUE,
   message |-> "duplicate key value violates unique constraint",
   code |-> "23505", constraint |-> "users_username_key"]

\* ------------------------------------------------ store queries (users.sql)
HasName(tbl, name) == \E i \in DOMAIN tbl : tbl[i].username = name

\* GetUserByName :one -- the row, or NoUser with pgx.ErrNoRows
GetUserByName(tbl, name) ==
  IF HasName(tbl, name)
    THEN tbl[CHOOSE i \in DOMAIN tbl : tbl[i].username = name]
    ELSE NoUser

GetUserByNameErr(tbl, name, fault) ==
  IF fault THEN ConnErr
  ELSE IF HasName(tbl, name) THEN NoErr ELSE ErrNoRows

\* the lookup by pvt_id the authentication middleware makes
GetUserById(tbl, id) == IF id \in DOMAIN tbl THEN tbl[id] ELSE NoUser

\* CreateUser :one -- INSERT ... RETURNING *, under the unique constraint on
\* username: a duplicate username is a constraint violation and inserts nothing
CreateUserConflict(tbl, params) == HasName(tbl, params.username)

CreateUserErr(tbl, params, fault) ==
  IF CreateUserConflict(tbl, params) THEN UniqueViolation
  ELSE IF fault THEN ConnErr ELSE NoErr

CreateUserRow(id, params) ==
  [pvtId |-> id, userId |-> id, username |-> params.username,
   displayName |-> params.displayName, password |-> params.password,
   passwordSalt |-> params.passwordSalt, createdAt |-> params.createdAt,
   updatedAt |-> params.updatedAt, lastLoggedIn |-> NullTs]

\* UpdateUserDetails :one -- UPDATE users SET username, display_name, password,
\* updated_at WHERE pvt_id RETURNING *; fails when no row has the pvt_id or the
\* new username belongs to another row
UpdateUserDetailsFails(tbl, params) ==
  \/ params.pvtId \notin DOMAIN tbl
  \/ \E i \in DOMAIN tbl \ {params.pvtId} : tbl[i].username = params.username

UpdateUserDetailsErr(tbl, params, fault) ==
  IF fault THEN ConnErr
  ELSE IF params.pvtId \notin DOMAIN tbl THEN ErrNoRows
  ELSE IF UpdateUserDetailsFails(tbl, params) THEN UniqueViolation
  ELSE NoErr

UpdateUserDetailsRow(row, params) ==
  [row EXCEPT !.username = params.username, !.displayName = params.displayName,
              !.password = params.password, !.updatedAt = params.updatedAt]

\* UpdateLoggedInTime :exec -- UPDATE users SET last_logged_in WHERE pvt_id
UpdateLoggedInTime(tbl, id, ts) ==
  IF id \in DOMAIN tbl THEN [tbl EXCEPT ![id].lastLoggedIn = ts] ELSE tbl

\* DeleteUserDetails :one -- DELETE FROM users WHERE pvt_id RETURNING *
DeleteUserDetailsErr(tbl, id, fault) ==
  IF fault THEN ConnErr
  ELSE IF id \notin DOMAIN tbl THEN ErrNoRows ELSE NoErr

DeleteUserDetails(tbl, id) == [i \in DOMAIN tbl \ {id} |-> tbl[i]]

\* ------------------------------------------------------------- start-up
\* The service starts against the persistent users table: empty, or holding
\* an account that an earlier run created (by handleRegister or by
\* handleCreateUser) and logged in, whose token is still outstanding.
EarlierAccount(hash, salt) ==
  [CreateUserRow(1, [username |-> "alice12", displayName |-> "Alice A.",
                     password |-> hash, passwordSalt |-> salt,
                     createdAt |-> 0, updatedAt |-> 0])
     EXCEPT !.lastLoggedIn = Ts(0)]

Init ==
  /\ now = 0
  /\ reqs = EmptyBag
  /\ last = IdleReq
  /\ started = 0
  /\ \/ /\ users = <<>>
        /\ nextId = 1
        /\ tokens = {}
        /\ ghost = <<>>
     \/ \E salt \in Salts :
          \E hash \in {saltyPassword("Secret123!", salt),
                        SaltyPassword("Secret123!", salt)} :
            /\ users = (1 :> EarlierAccount(hash, salt))
            /\ nextId = 2
            /\ tokens = {[pvt |-> 1, exp |-> TokenTTL]}
            /\ ghost = (1 :> [pw |-> "Secret123!", username |-> "alice12",
                               passwordSalt |-> salt])

\* ------------------------------------------------------ render (responses)
RespondSuccess(status, data) == [status |-> status, ok |-> TRUE, body |-> data]
RespondFailure(status, data) == [status |-> status, ok |-> FALSE, body |-> data]
RespondValidationFailure ==
  [status |-> 400, ok |-> FALSE, body |-> [validation |-> "field errors"]]

Mssg(m) == [message |-> m]
insufficientStorageErrorMssg == "could not create user at this moment"
tokenGenerationErrorMssg == "could not login user at this time"

\* ------------------------------------------------------- request plumbing
Free == started < MaxReqs /\ BagCardinality(reqs) < MaxInFlight

Begin(kind, in) == [IdleReq EXCEPT !.kind = kind, !.in = in]

Finish(r, resp, note) ==
  [r EXCEPT !.pc = "done", !.resps = Append(r.resps, resp), !.note = note]

\* what the step hands to the observer: the request it completed
Completed(r) ==
  IF r.pc = "done"
    THEN [r EXCEPT !.user = [NoUser EXCEPT !.pvtId = r.user.pvtId], !.upd = NoUser]
    ELSE IdleReq

\* the first step of a request: it has responded, or it is now in flight
Start(r) ==
  /\ reqs' = IF r.pc = "done" THEN reqs ELSE reqs (+) SetToBag({r})
  /\ last' = Completed(r)

\* the last step of the request in flight r, which ends as r2
Done(r, r2) ==
  /\ reqs' = reqs (-) SetToBag({r})
  /\ last' = Completed(r2)

Store(id, row, pw) ==
  /\ users' = (id :> row) @@ users
  /\ ghost' = (id :> [pw |-> pw, username |-> row.username,
                      passwordSalt |-> row.passwordSalt]) @@ ghost

\* ------------------------------------------------- handleRegister (POST)
registerResponse(user) ==
  [user_id |-> user.userId, username |-> user.username,
   display_name |-> user.displayName, created_at |-> user.createdAt]

\* RegisterCreateResp without the error branch
RegisterCreateRespNoCheck(err, user) == RespondSuccess(201, registerResponse(user))

\* RegisterCreateResp passing the error of the store on to the caller
RegisterCreateRespLeaks(err, user) ==
  IF err # NoErr THEN RespondFailure(507, Mssg(err.message))
                 ELSE RespondSuccess(201, registerResponse(user))

\* the response to the result of CreateUser
RegisterCreateResp(err, user) ==
  IF err # NoErr THEN RespondFailure(507, Mssg(insufficientStorageErrorMssg))
                 ELSE RespondSuccess(201, registerResponse(user))

\* slog.Error under errors.As(err, &pgErr)
CreateUserLog(err) ==
  IF err.pg
    THEN <<[msg |-> "could not create user", error |-> err.message,
            code |-> err.code, constraint |-> err.constraint]>>
    ELSE <<>>

\* PreCheckRejects taking every error but "no rows" for a taken username
PreCheckRejectsUnlessNoRows(err) == err # ErrNoRows

\* _, err = queries.GetUserByName(...); if err == nil { "already exists" }
PreCheckRejects(err) == err = NoErr

\* what the pre-check lookup returned
LookupOutcome(err) ==
  IF err = NoErr THEN "found"
  ELSE IF err = ErrNoRows THEN "not_found" ELSE "lookup_error"

\* decode, validate, pre-check lookup
RegisterLookup(in) ==
  /\ Free
  /\ started' = started + 1
  /\ \E dbErr \in BOOLEAN :
       LET err == GetUserByNameErr(users, in.username, dbErr)
           r0 == Begin("register", in)
           r == [r0 EXCEPT !.pre = LookupOutcome(err)]
       IN
       Start(
         IF ~ValidRegister(in) THEN Finish(r0, RespondValidationFailure, "invalid")
         ELSE IF PreCheckRejects(err)
           THEN Finish(r, RespondFailure(406, [username |-> "already exists"]),
                       "precheck")
         ELSE [r EXCEPT !.pc = "reg_create"])
  /\ UNCHANGED <<users, nextId, now, tokens, ghost>>

\* rand.Read, saltyPassword, CreateUser, response
RegisterCreate(r) ==
  /\ r.kind = "register" /\ r.pc = "reg_create"
  /\ \E randErr \in BOOLEAN, salt \in Salts, dbErr \in BOOLEAN :
       LET params == [username |-> r.in.username, displayName |-> r.in.displayName,
                      password |-> saltyPassword(r.in.password, salt),
                      passwordSalt |-> salt, createdAt |-> now, updatedAt |-> now]
           err == CreateUserErr(users, params, dbErr)
           row == CreateUserRow(nextId, params)
       IN
       IF randErr
         THEN /\ Done(r,
                   Finish(r, RespondFailure(507, Mssg(insufficientStorageErrorMssg)),
                          "rand_error"))
              /\ UNCHANGED <<users, nextId, ghost>>
         ELSE /\ Done(r,
                   Finish([r EXCEPT !.created = IF err # NoErr THEN 0 ELSE nextId,
                                    !.log = r.log \o CreateUserLog(err)],
                          RegisterCreateResp(err, row),
                          IF err = UniqueViolation THEN "conflict"
                          ELSE IF err # NoErr THEN "store_error" ELSE "created"))
              /\ IF err # NoErr THEN UNCHANGED <<users, nextId, ghost>>
                        ELSE /\ Store(nextId, row, r.in.password)
                             /\ nextId' = nextId + 1
  /\ UNCHANGED <<now, tokens, started>>

\* ------------------------------------------------ handleCreateUser (POST /)
PublicUserDetailsOfCreate(user) ==
  [user_id |-> user.userId, username |-> user.username,
   display_name |-> user.displayName, created_at |-> user.createdAt,
   updated_at |-> 0, last_logged_in |-> NullTs]

CreateUserResp(err, user) ==
  IF err # NoErr THEN RespondFailure(507, Mssg(insufficientStorageErrorMssg))
                 ELSE RespondSuccess(201, PublicUserDetailsOfCreate(user))

CreateLookup(in) ==
  /\ Free
  /\ started' = started + 1
  /\ \E dbErr \in BOOLEAN :
       LET err == GetUserByNameErr(users, in.username, dbErr)
           r0 == Begin("create", in)
           r == [r0 EXCEPT !.pre = LookupOutcome(err)]
       IN
       Start(
         IF ~ValidCreate(in) THEN Finish(r0, RespondValidationFailure, "invalid")
         ELSE IF PreCheckRejects(err)
           THEN Finish(r, RespondFailure(406, [username |-> "already exists"]),
                       "precheck")
         ELSE [r EXCEPT !.pc = "cre_create"])
  /\ UNCHANGED <<users, nextId, now, tokens, ghost>>

CreateCreate(r) ==
  /\ r.kind = "create" /\ r.pc = "cre_create"
  /\ \E randErr \in BOOLEAN, salt \in Salts, dbErr \in BOOLEAN :
       LET params == [username |-> r.in.username, displayName |-> r.in.displayName,
                      password |-> SaltyPassword(r.in.password, salt),
                      passwordSalt |-> salt, createdAt |-> now, updatedAt |-> now]
           err == CreateUserErr(users, params, dbErr)
           row == CreateUserRow(nextId, params)
       IN
       IF randErr
         THEN /\ Done(r,
                   Finish(r, RespondFailure(507, Mssg(insufficientStorageErrorMssg)),
                          "rand_error"))
              /\ UNCHANGED <<users, nextId, ghost>>
         ELSE /\ Done(r,
                   Finish([r EXCEPT !.created = IF err # NoErr THEN 0 ELSE nextId,
                                    !.log = r.log \o CreateUserLog(err)],
                          CreateUserResp(err, row),
                          IF err = UniqueViolation THEN "conflict"
                          ELSE IF err # NoErr THEN "store_error" ELSE "created"))
              /\ IF err # NoErr THEN UNCHANGED <<users, nextId, ghost>>
                        ELSE /\ Store(nextId, row, r.in.password)
                             /\ nextId' = nextId + 1
  /\ UNCHANGED <<now, tokens, started>>


\* ------------------------------------------------------ handleLogin (POST)
\* auth.UserToToken: the token carries the private id and an expiry
UserToToken(user) == [pvt |-> user.pvtId, exp |-> now + TokenTTL]

\* LoginToken issuing for a zero User instead of the account looked up
LoginTokenZeroUser(user) == UserToToken(NoUser)

\* token, err := auth.UserToToken(user)
LoginToken(user) == UserToToken(user)

\* loginResponse reporting the time this login writes
loginResponseNow(token, user) ==
  [token |-> token, token_type |-> "Bearer", username |-> user.username,
   display_name |-> user.displayName, last_logged_in |-> Ts(now)]

loginResponse(token, user) ==
  [token |-> token, token_type |-> "Bearer", username |-> user.username,
   display_name |-> user.displayName, last_logged_in |-> user.lastLoggedIn]

\* LoginNotFoundResp telling the caller that the username is unknown
LoginNotFoundRespOracle == RespondFailure(404, Mssg("user not found"))

\* the response when GetUserByName returns an error
LoginNotFoundResp == RespondFailure(400, Mssg("username or password is invalid"))

\* the response when the derived hash differs from the stored one
LoginWrongPasswordResp == RespondFailure(400, Mssg("username or password is invalid"))

\* what handleLogin responds when UpdateLoggedInTime fails; it does not return
LoginTimeUpdateResps(err) ==
  IF err THEN <<RespondFailure(507, Mssg(tokenGenerationErrorMssg))>> ELSE <<>>

\* decode, validate, GetUserByName, saltyPassword, ConstantTimeCompare
LoginLookup(in) ==
  /\ Free
  /\ started' = started + 1
  /\ \E dbErr \in BOOLEAN :
       LET r == Begin("login", in)
           user == GetUserByName(users, in.username)
           err == dbErr \/ user = NoUser
       IN
       Start(
         IF ~ValidLogin(in) THEN Finish(r, RespondValidationFailure, "invalid")
         ELSE IF err
           THEN Finish(r, LoginNotFoundResp,
                       IF dbErr THEN "lookup_error" ELSE "not_found")
         ELSE IF ~ConstantTimeCompare(saltyPassword(in.password, user.passwordSalt),
                                       user.password)
           THEN Finish([r EXCEPT !.user = user], LoginWrongPasswordResp,
                       "wrong_password")
         ELSE [r EXCEPT !.pc = "login_write", !.user = user, !.note = "verified"])
  /\ UNCHANGED <<users, nextId, now, tokens, ghost>>

\* UpdateLoggedInTime, UserToToken, response
LoginFinish(r) ==
  /\ r.kind = "login" /\ r.pc = "login_write"
  /\ \E dbErr \in BOOLEAN, tokErr \in BOOLEAN :
       LET user == r.user
           r1 == [r EXCEPT !.resps = r.resps \o LoginTimeUpdateResps(dbErr)]
           token == LoginToken(user)
       IN
       /\ users' = IF dbErr THEN users
                   ELSE UpdateLoggedInTime(users, user.pvtId, Ts(now))
       /\ IF tokErr
            THEN /\ Done(r,
                      Finish(r1, RespondFailure(500, Mssg(tokenGenerationErrorMssg)),
                             "token_error"))
                 /\ UNCHANGED tokens
            ELSE /\ Done(r,
                      Finish(r1, RespondSuccess(200, loginResponse(token, user)),
                             IF dbErr THEN "time_update_failed" ELSE "logged_in"))
                 /\ tokens' = tokens \cup {token}
  /\ UNCHANGED <<nextId, now, started, ghost>>

\* --------------------------------------- auth.Authentication (middleware)
Credentials ==
  {NoCred, BadCred} \cup {[kind |-> "token", pvt |-> t.pvt, exp |-> t.exp] : t \in tokens}

\* token validation: well-formed, signed by this process, not expired
TokenValid(cred) == cred.kind = "token" /\ now < cred.exp

\* the account the gate attaches to the request, NoUser when it rejects
Authentication(cred) ==
  IF TokenValid(cred) THEN GetUserById(users, cred.pvt) ELSE NoUser

\* the failure kind of a rejection
GateFailure(cred) ==
  IF cred.kind = "none" THEN "Unauthenticated"
  ELSE IF ~TokenValid(cred) THEN "CredentialExpiredOrInvalid"
  ELSE "StaleCredential"

GateRejectResp(cred) ==
  IF cred.kind = "none" THEN RespondFailure(401, Mssg("unauthenticated"))
  ELSE RespondFailure(401, Mssg("invalid credential"))

\* Gated with GET / registered outside the group
GatedOnlyWrites(kind) == kind \in {"update", "delete"}

\* the routes UserRouter registers under router.With(auth.Authentication)
Gated(kind) == kind \in {"get", "update", "delete"}

\* the middleware answers and the handler is not called
Rejected(kind, cred) == Gated(kind) /\ Authentication(cred) = NoUser

\* auth.GetUserData(r): the account the middleware put in the request
\* context, the zero User on a route without the middleware
GetUserData(kind, cred) == IF Gated(kind) THEN Authentication(cred) ELSE NoUser

\* -------------------------------------------------- convertToPublicUser
convertToPublicUser(u) ==
  [user_id |-> u.userId, username |-> u.username, display_name |-> u.displayName,
   created_at |-> u.createdAt, updated_at |-> u.updatedAt,
   last_logged_in |-> u.lastLoggedIn]

\* database.User as the response encoder writes it
UserJSON(u) ==
  [pvt_id |-> u.pvtId, user_id |-> u.userId, username |-> u.username,
   display_name |-> u.displayName, password |-> u.password,
   password_salt |-> u.passwordSalt, created_at |-> u.createdAt,
   updated_at |-> u.updatedAt, last_logged_in |-> u.lastLoggedIn]

\* ------------------------------------------- handleGetUserDetail (GET /)
GetUserDetail(cred) ==
  /\ Free
  /\ started' = started + 1
  /\ LET r == [Begin("get", NoInput) EXCEPT !.cred = cred]
         user == GetUserData("get", cred)
     IN
     Start(
       IF Rejected("get", cred)
         THEN Finish([r EXCEPT !.pre = GateFailure(cred)], GateRejectResp(cred),
                     "rejected")
       ELSE Finish([r EXCEPT !.user = user],
                   RespondSuccess(200, convertToPublicUser(user)), "got"))
  /\ UNCHANGED <<users, nextId, now, tokens, ghost>>

\* --------------------------------------------- handleUpdateUser (PATCH /)
\* UpdateFields assigning the display name to the username
UpdateFieldsWrongField(user, ud) ==
  [user EXCEPT
     !.password = IF ud.password # NIL
                    THEN SaltyPassword(ud.password, user.passwordSalt) ELSE @,
     !.username = IF ud.displayName # NIL THEN ud.displayName ELSE @,
     !.displayName = IF ud.displayName # NIL THEN ud.displayName ELSE @]

\* UpdateFields hashing the new password with the username instead of the salt
UpdateFieldsWrongSalt(user, ud) ==
  [user EXCEPT
     !.password = IF ud.password # NIL
                    THEN SaltyPassword(ud.password, 0) ELSE @,
     !.username = IF ud.username # NIL THEN ud.username ELSE @,
     !.displayName = IF ud.displayName # NIL THEN ud.displayName ELSE @]

\* "find the updated fields": the user of the request context, overwritten
\* with the fields the request supplies
UpdateFields(user, ud) ==
  [user EXCEPT
     !.password = IF ud.password # NIL
                    THEN SaltyPassword(ud.password, user.passwordSalt) ELSE @,
     !.username = IF ud.username # NIL THEN ud.username ELSE @,
     !.displayName = IF ud.displayName # NIL THEN ud.displayName ELSE @]

UpdateUserDetailsParams(user, t) ==
  [username |-> user.username, displayName |-> user.displayName,
   password |-> user.password, updatedAt |-> t, pvtId |-> user.pvtId]

\* IsEmptyData never taking the short circuit
IsEmptyDataNever(ud) == FALSE

\* ud == emptyData: every pointer field of the decoded body is nil
IsEmptyData(ud) == ud = NoInput

\* the gate, decode, the empty short circuit, validate, the updated fields
UpdateGate(cred, ud) ==
  /\ Free
  /\ started' = started + 1
  /\ LET r == [Begin("update", ud) EXCEPT !.cred = cred]
         user == GetUserData("update", cred)
     IN
     Start(
       IF Rejected("update", cred)
         THEN Finish([r EXCEPT !.pre = GateFailure(cred)], GateRejectResp(cred),
                     "rejected")
       ELSE IF IsEmptyData(ud)
         THEN Finish([r EXCEPT !.user = user],
                     RespondSuccess(200, convertToPublicUser(user)), "noop")
       ELSE IF ~ValidUpdate(ud)
         THEN Finish([r EXCEPT !.user = user], RespondValidationFailure, "invalid")
       ELSE [r EXCEPT !.pc = "upd_write", !.user = user,
                      !.upd = UpdateFields(user, ud), !.note = "validated"])
  /\ UNCHANGED <<users, nextId, now, tokens, ghost>>

\* the response to the result of UpdateUserDetails
UpdateResp(err, updUser) ==
  IF err # NoErr THEN RespondFailure(507, Mssg("could not update at this time"))
                 ELSE RespondSuccess(200, convertToPublicUser(updUser))

\* UpdateUserDetails, response
UpdateWrite(r) ==
  /\ r.kind = "update" /\ r.pc = "upd_write"
  /\ \E dbErr \in BOOLEAN :
       LET params == UpdateUserDetailsParams(r.upd, now)
           err == UpdateUserDetailsErr(users, params, dbErr)
           id == params.pvtId
       IN
       IF err # NoErr
         THEN /\ Done(r, Finish(r, UpdateResp(err, NoUser), "store_error"))
              /\ UNCHANGED <<users, ghost>>
         ELSE LET updUser == UpdateUserDetailsRow(users[id], params) IN
              /\ users' = [users EXCEPT ![id] = updUser]
              /\ ghost' = IF r.in.password # NIL
                            THEN [ghost EXCEPT ![id].pw = r.in.password] ELSE ghost
              /\ Done(r,
                   Finish(r, UpdateResp(err, updUser), "updated"))
  /\ UNCHANGED <<nextId, now, tokens, started>>

\* -------------------------------------------- handleDeleteUser (DELETE /)
DeleteResp(err, delUser) ==
  IF err # NoErr THEN RespondFailure(500, Mssg("could not delete at this time"))
                 ELSE RespondSuccess(200, UserJSON(delUser))

DeleteGate(cred) ==
  /\ Free
  /\ started' = started + 1
  /\ LET r == [Begin("delete", NoInput) EXCEPT !.cred = cred]
         user == GetUserData("delete", cred)
     IN
     Start(
       IF Rejected("delete", cred)
         THEN Finish([r EXCEPT !.pre = GateFailure(cred)], GateRejectResp(cred),
                     "rejected")
       ELSE [r EXCEPT !.pc = "del_write", !.user = user, !.note = "gated"])
  /\ UNCHANGED <<users, nextId, now, tokens, ghost>>

DeleteWrite(r) ==
  /\ r.kind = "delete" /\ r.pc = "del_write"
  /\ \E dbErr \in BOOLEAN :
       LET id == r.user.pvtId
           err == DeleteUserDetailsErr(users, id, dbErr)
       IN
       IF err # NoErr
         THEN /\ Done(r, Finish(r, DeleteResp(err, NoUser), "store_error"))
              /\ UNCHANGED <<users, ghost>>
         ELSE /\ users' = DeleteUserDetails(users, id)
              /\ ghost' = [i \in DOMAIN ghost \ {id} |-> ghost[i]]
              /\ Done(r,
                   Finish(r, DeleteResp(err, users[id]), "deleted"))
  /\ UNCHANGED <<nextId, now, tokens, started>>

\* ------------------------------------------------------------------ time
Tick ==
  /\ now < MaxTime
  /\ now' = now + 1
  /\ last' = IdleReq
  /\ UNCHANGED <<users, nextId, tokens, reqs, started, ghost>>

Next ==
  \/ \E in \in RegisterInputs : RegisterLookup(in)
  \/ \E r \in BagToSet(reqs) : RegisterCreate(r)
  \/ \E in \in CreateInputs : CreateLookup(in)
  \/ \E r \in BagToSet(reqs) : CreateCreate(r)
  \/ \E in \in LoginInputs : LoginLookup(in)
  \/ \E r \in BagToSet(reqs) : LoginFinish(r)
  \/ \E cred \in Credentials : GetUserDetail(cred)
  \/ \E cred \in Credentials, ud \in UpdateInputs :
       UpdateGate(cred, ud)
  \/ \E r \in BagToSet(reqs) : UpdateWrite(r)
  \/ \E cred \in Credentials : DeleteGate(cred)
  \/ \E r \in BagToSet(reqs) : DeleteWrite(r)
  \/ Tick

Spec == Init /\ [][Next]_vars


\* one request at a time: a request starts only when no other is running
SeqNext == Next /\ BagCardinality(reqs') <= 1

SeqSpec == Init /\ [][SeqNext]_vars


\* ================================================================ claims
LastResp == last.resps[Len(last.resps)]
Responded == last.resps # <<>>
Common == DOMAIN users \cap DOMAIN users'
UsernameTaken == RespondFailure(406, [username |-> "already exists"])
InvalidCredentials == RespondFailure(400, Mssg("username or password is invalid"))
PassedVerification == {"logged_in", "time_update_failed", "token_error"}

\* C1: no two stored accounts share a username, and a registration (by
\* handleRegister or handleCreateUser) answers with success only when the store
\* created its account, so that of two registrations racing on one username at
\* most one ends with an account and a success response.
C1_UniqueUsername ==
  /\ \A i, j \in DOMAIN users : i # j => users[i].username # users[j].username
  /\ (last.kind \in {"register", "create"} /\ Responded /\ LastResp.ok)
       => /\ last.created \in DOMAIN users
          /\ users[last.created].username = last.in.username

\* a registration that passed the pre-check and then lost the race
C1_Witness ==
  /\ last.kind = "register" /\ last.pre = "not_found" /\ last.note = "conflict"
  /\ HasName(users, last.in.username)

\* C2: a registration whose pre-check lookup found no account and whose create
\* then hits the username conflict is answered with the "username taken"
\* failure of the pre-check, not with the generic creation failure.
C2_ConflictIsUsernameTaken ==
  (last.kind \in {"register", "create"} /\ last.pre = "not_found"
     /\ last.note = "conflict")
    => last.resps = <<UsernameTaken>>

\* C3: a login whose password verified and whose last-login update failed
\* produces exactly one response, the success response with the token.
C3_LoginSurvivesTimeUpdateFailure ==
  (last.kind = "login" /\ last.note = "time_update_failed")
    => Len(last.resps) = 1 /\ last.resps[1].ok

\* C4: a login with an unknown username and a login with a wrong password end
\* with the same single response (status, kind, message), and the step that
\* rejects them leaves the users table as it was.
C4_NoExistenceOracle ==
  [][(last'.kind = "login" /\ last'.note \in {"not_found", "wrong_password"})
       => /\ last'.resps = <<InvalidCredentials>>
          /\ users' = users]_vars

\* a wrong password for an account that exists
C4_Witness ==
  /\ last.kind = "login" /\ last.note = "wrong_password"
  /\ HasName(users, last.in.username)

\* C5: no success response carries the password hash, the salt or the private
\* storage identifier.
C5_SuccessIsPublicOnly ==
  \A k \in 1..Len(last.resps) :
    last.resps[k].ok
      => DOMAIN last.resps[k].body \cap {"password", "password_salt", "pvt_id"} = {}

C7_HashOfCurrentPassword ==
  \A id \in DOMAIN users :
    users[id].password = SaltyPassword(ghost[id].pw, users[id].passwordSalt)

C9_SaltFixed ==
  \A id \in DOMAIN users :
    /\ users[id].passwordSalt = ghost[id].passwordSalt
    /\ (last.kind = "update" /\ last.note = "updated" /\ last.in.password # NIL
          /\ last.user.pvtId = id)
         => users[id].password =
              SaltyPassword(last.in.password, ghost[id].passwordSalt)

\* an Update has replaced the password
C9_Witness ==
  /\ last.kind = "update" /\ last.note = "updated" /\ last.in.password # NIL
  /\ \E id \in DOMAIN users :
       id = last.user.pvtId /\ users[id].password.pw = last.in.password

\* C10: a stored last-authenticated-at changes only in a login that ends with
\* the success response.
C10_LastLoginOnlyOnSuccess ==
  [][\A id \in Common :
       users'[id].lastLoggedIn # users[id].lastLoggedIn
         => last'.kind = "login" /\ last'.resps[Len(last'.resps)].ok]_vars

\* C11: an Update that supplies no field and passes the gate ends in the step
\* that started it, without reaching validation or the store write: the users
\* table is as it was, the one response is the success response with the
\* public profile of the account the gate resolved, and no Update in flight
\* carries an empty body.
C11_EmptyUpdateIsNoOp ==
  [][/\ \A r \in BagToSet(reqs') : r.kind = "update" => r.in # NoInput
     /\ (last'.kind = "update" /\ last'.in = NoInput /\ last'.note # "rejected")
          => /\ last'.note = "noop"
             /\ users' = users
             /\ last'.user.pvtId \in DOMAIN users
             /\ last'.resps =
                  <<RespondSuccess(200,
                      convertToPublicUser(users[last'.user.pvtId]))>>]_vars

\* an empty Update of an account that exists has been answered
C11_Witness ==
  /\ last.kind = "update" /\ last.in = NoInput /\ last.note = "noop"
  /\ last.user.pvtId \in DOMAIN users

\* what the store driver says about a failure
StorageDetail ==
  UNION {{e.message, e.code, e.constraint} :
           e \in {ErrNoRows, ConnErr, UniqueViolation}} \ {""}

GenericStoreFailure ==
  [register |-> RespondFailure(507, Mssg("could not create user at this moment")),
   create |-> RespondFailure(507, Mssg("could not create user at this moment")),
   update |-> RespondFailure(507, Mssg("could not update at this time")),
   delete |-> RespondFailure(500, Mssg("could not delete at this time"))]

\* C12: no failure response carries the text, the code or the constraint name
\* of a store error; an account creation, update or delete that failed in the
\* store (a constraint violation included) is answered with the one fixed
\* failure of its operation, and the detail of the error goes nowhere but to
\* the log line of a creation that failed on the constraint.
C12_NoStorageDetailInFailure ==
  /\ \A k \in 1..Len(last.resps) :
       ~last.resps[k].ok
         => \A f \in DOMAIN last.resps[k].body :
              last.resps[k].body[f] \notin StorageDetail
  /\ (last.kind \in DOMAIN GenericStoreFailure
        /\ last.note \in {"conflict", "store_error"})
       => last.resps = <<GenericStoreFailure[last.kind]>>
  /\ \A k \in 1..Len(last.log) :
       /\ last.kind \in {"register", "create"} /\ last.note = "conflict"
       /\ last.log[k].error = UniqueViolation.message
       /\ last.log[k].code = UniqueViolation.code
       /\ last.log[k].constraint = UniqueViolation.constraint

\* a creation has failed on the unique constraint and logged the detail
C12_Witness ==
  /\ last.kind \in {"register", "create"} /\ last.note = "conflict"
  /\ last.log # <<>> /\ ~LastResp.ok

\* the request the step started: answered at once, or now in flight
NewReqs == IF reqs' = reqs THEN {last'} ELSE BagToSet(reqs' (-) reqs)
GateRejections ==
  {<<RespondFailure(401, Mssg("unauthenticated"))>>,
   <<RespondFailure(401, Mssg("invalid credential"))>>}

\* C13: a get-user-detail, update or delete request gets past the gate only
\* with an unexpired token whose account is in the users table, and then runs
\* as that account; with no credential, with a credential that is not a valid
\* token, with an expired token, or with a token whose account has been
\* deleted, it ends at the gate with the 401 failure and changes nothing.
C13_GateBeforeHandlers ==
  [][started' = started + 1
       => \A r \in NewReqs :
            r.kind \in {"get", "update", "delete"}
              => IF /\ r.cred.kind = "token" /\ now < r.cred.exp
                    /\ r.cred.pvt \in DOMAIN users
                   THEN /\ r.note # "rejected"
                        /\ r.user.pvtId = r.cred.pvt
                        /\ r.pc # "done" => r.user = users[r.cred.pvt]
                   ELSE /\ r.note = "rejected" /\ r.pc = "done"
                        /\ r.resps \in GateRejections
                        /\ users' = users]_vars

\* the unexpired token of a deleted account has been rejected
C13_Witness ==
  /\ last.kind \in {"get", "update", "delete"} /\ last.note = "rejected"
  /\ last.cred.kind = "token" /\ now < last.cred.exp
  /\ last.cred.pvt \notin DOMAIN users
  /\ last.resps \in GateRejections

C15_DisplayNameUpdateKeepsHash ==
  [][\A r \in BagToSet(reqs) :
       (/\ r.kind = "update" /\ r.pc = "upd_write"
        /\ r.in.displayName # NIL /\ r.in.username = NIL /\ r.in.password = NIL
        /\ reqs' = reqs (-) SetToBag({r})
        /\ last'.kind = "update" /\ last'.note = "updated")
         => users'[r.user.pvtId].password = users[r.user.pvtId].password]_vars

ValidRegistration(r) ==
  IF r.kind = "register" THEN ValidRegister(r.in) ELSE ValidCreate(r.in)

\* C16: the step in which a registration (POST /register or POST /user) is
\* decoded, validated and pre-checked writes nothing to the store; a request
\* that fails validation ends there with the validation failure; a valid one
\* ends there with "already exists" exactly when the lookup returned an
\* account, and after every other lookup outcome, the lookup error included,
\* it goes on unanswered to salt generation and CreateUser.
C16_RejectedRegistrationWritesNothing ==
  [][started' = started + 1
       => \A r \in NewReqs :
            r.kind \in {"register", "create"}
              => /\ users' = users /\ nextId' = nextId
                 /\ ~ValidRegistration(r)
                      => /\ r.pc = "done" /\ r.note = "invalid"
                         /\ r.resps = <<RespondValidationFailure>>
                 /\ ValidRegistration(r)
                      => /\ r.pre = "found"
                              <=> (r.pc = "done" /\ r.note = "precheck"
                                     /\ r.resps = <<UsernameTaken>>)
                         /\ r.pre # "found"
                              => /\ r.pc \in {"reg_create", "cre_create"}
                                 /\ r.resps = <<>>
                         /\ r.pre = "found" => HasName(users, r.in.username)
                         /\ r.pre = "not_found" => ~HasName(users, r.in.username)]_vars

\* one registration has been rejected by the pre-check while another, whose
\* lookup of the same stored username failed, is on its way to CreateUser
C16_Witness ==
  /\ last.kind \in {"register", "create"} /\ last.note = "precheck"
  /\ last.resps = <<UsernameTaken>>
  /\ \E r \in BagToSet(reqs) :
       /\ r.kind \in {"register", "create"} /\ r.pre = "lookup_error"
       /\ r.in.username = last.in.username
       /\ HasName(users, r.in.username)

\* C17: the last_logged_in of a successful login response is the
\* last_logged_in of the row GetUserByName returned when the login began
\* (NULL when the account had never logged in), whatever the login itself or
\* any other request has written to the row since.
C17_ResponseHasPreviousLogin ==
  [][\A r \in BagToSet(reqs) :
       (/\ r.kind = "login" /\ r.pc = "login_write"
        /\ reqs' = reqs (-) SetToBag({r})
        /\ last'.kind = "login"
        /\ last'.note \in {"logged_in", "time_update_failed"})
         => LET resp == last'.resps[Len(last'.resps)] IN
            /\ resp.ok
            /\ resp.body.last_logged_in = r.user.lastLoggedIn]_vars

\* a login has stored the present time and reported the earlier one
C17_Witness ==
  /\ last.kind = "login" /\ last.note = "logged_in"
  /\ last.user.pvtId \in DOMAIN users
  /\ users[last.user.pvtId].lastLoggedIn = Ts(now)
  /\ LastResp.body.last_logged_in # Ts(now)

\* the store write of an Update or of a login whose account has been deleted
\* since the request resolved it changes no stored account, and an account
\* appears in the table only under a private id never used before
NoWriteAfterDelete ==
  /\ \A r \in BagToSet(reqs) :
       (/\ r.kind \in {"update", "login"}
        /\ r.pc \in {"upd_write", "login_write"}
        /\ reqs' = reqs (-) SetToBag({r})
        /\ r.user.pvtId \notin DOMAIN users)
         => users' = users
  /\ \A id \in DOMAIN users' \ DOMAIN users : id = nextId

\* a login answered with a token is the login of a stored account
NoTokenForDeletedAccount ==
  (last'.kind = "login" /\ last'.resps # <<>>
     /\ last'.resps[Len(last'.resps)].ok)
    => last'.user.pvtId \in DOMAIN users'

\* C18: once a Delete has removed an account, no step re-creates it or writes
\* to it (an Update or a login timestamp write that resolved the account
\* before the delete changes no stored account), and no login is answered with
\* the success response and a token while its account is absent from the
\* users table.
C18_DeletionIsFinal ==
  [][NoWriteAfterDelete /\ NoTokenForDeletedAccount]_vars

====
